---------------------------- MODULE Spec2Model ----------------------------
(***************************************************************************)
(* Fzolv::Vector2<T> (src/include/vector.hpp), instantiated as Vector2f    *)
(* (T = float) and Vector2i (T = int), driven the way src/src/test.cpp     *)
(* drives it: two fixture vectors are constructed and one operation of the *)
(* class is called on them.                                                *)
(*                                                                         *)
(* Numbers.  float is a binary floating-point format with MantBits         *)
(* significand bits (FLT_MANT_DIG is 24), gradual underflow, round to      *)
(* nearest / ties to even, overflow to infinity, and NaN.  A finite float  *)
(* is held as an integer count of the smallest subnormal ("fu"); 1.0 is    *)
(* OneU fu.  The sign of zero is not kept: no operation modelled here      *)
(* divides by a computed zero of negative sign, and ==, < and > do not     *)
(* tell the two zeros apart.  double is the same with DblMant >=           *)
(* 2*MantBits+2 significand bits (53 >= 2*24+2) and an exponent range the  *)
(* operations below never leave; a double is held as m * 2^e.  int is a    *)
(* two's complement integer of IntBits bits (32 in the build); signed      *)
(* overflow, division by zero and an out-of-range conversion are undefined *)
(* behaviour, held as the value UB until the operation returns, when the   *)
(* result is any int.                                                      *)
(***************************************************************************)
EXTENDS Integers, FiniteSets, Sequences, TLC

\* significand bits of float (scaled down from 24)
MantBits == 3
\* binades of float above the subnormal one (scaled down from 253)
ExpSpan == 10
\* bits of int (scaled down from 32)
IntBits == 6

(* ty: the component type T of the instantiation under test.  contract:   *)
(* whether the build contracts a * b + c into a fused multiply-add (one    *)
(* rounding), as ISO C++ lets it and GCC does at -O2 where the target has  *)
(* the instruction.  obj: the fields of the fixture objects.  pc: "ready"  *)
(* before the call under test, "done" after it, "done2" after a second     *)
(* call that undoes the first.  op: the call (or calls) made, pre:         *)
(* the objects before it, res: what it returned, ub: whether it ran into   *)
(* undefined behaviour.                                                    *)
VARIABLES ty, contract, obj, pc, op, pre, res, ub

vars == <<ty, contract, obj, pc, op, pre, res, ub>>

RECURSIVE Pow2(_)
Pow2(n) == IF n <= 0 THEN 1 ELSE 2 * Pow2(n - 1)

Abs(n) == IF n < 0 THEN -n ELSE n
Sgn(n) == IF n < 0 THEN -1 ELSE IF n > 0 THEN 1 ELSE 0

\* floor of the square root
RECURSIVE Isqrt(_)
Isqrt(n) ==
    IF n < 2 THEN n
    ELSE LET s == 2 * Isqrt(n \div 4)
         IN  IF (s + 1) * (s + 1) <= n THEN s + 1 ELSE s

--------------------------------------------------------------------------
(* Scalar values: [k, n].  k = "fin": the finite value n (fu for float,   *)
(* the integer itself for int); "inf": n is the sign; "nan"; "ub".        *)

Fin(n) == [k |-> "fin", n |-> n]
Inf(s) == [k |-> "inf", n |-> s]
NaN == [k |-> "nan", n |-> 0]
UB == [k |-> "ub", n |-> 0]

IsNaN(a) == a.k = "nan"
IsUB(a) == a.k = "ub"
IsFin(a) == a.k = "fin"

\* 1.0f in fu: the smallest subnormal is 2^-(MantBits+1)
OneU == Pow2(MantBits + 1)
\* FLT_MAX in fu
FMaxU == (Pow2(MantBits) - 1) * Pow2(ExpSpan)

\* unit in the last place, in fu, of the positive rational num/den fu
RECURSIVE FUlp(_, _)
FUlp(num, den) ==
    IF num < den * Pow2(MantBits) THEN 1 ELSE 2 * FUlp(num, 2 * den)

\* the float nearest to sgn * num/den fu (num >= 0, den > 0), ties to even
FRound(sgn, num, den) ==
    LET ulp == FUlp(num, den)
        step == den * ulp
        m == num \div step
        rem == num - m * step
        mr == IF 2 * rem > step \/ (2 * rem = step /\ m % 2 = 1)
              THEN m + 1 ELSE m
        n == mr * ulp
    IN  IF n > FMaxU THEN Inf(sgn) ELSE Fin(sgn * n)

FNeg(a) ==
    CASE a.k = "fin" -> Fin(-a.n)
      [] a.k = "inf" -> Inf(-a.n)
      [] OTHER -> a

FAdd(a, b) ==
    CASE IsNaN(a) \/ IsNaN(b) -> NaN
      [] a.k = "inf" /\ b.k = "inf" -> IF a.n = b.n THEN a ELSE NaN
      [] a.k = "inf" -> a
      [] b.k = "inf" -> b
      [] OTHER -> FRound(Sgn(a.n + b.n), Abs(a.n + b.n), 1)

FSub(a, b) == FAdd(a, FNeg(b))

FMul(a, b) ==
    CASE IsNaN(a) \/ IsNaN(b) -> NaN
      [] a.k = "inf" \/ b.k = "inf" ->
            IF a.n = 0 \/ b.n = 0 THEN NaN ELSE Inf(Sgn(a.n) * Sgn(b.n))
      [] OTHER -> FRound(Sgn(a.n) * Sgn(b.n), Abs(a.n * b.n), OneU)

FDiv(a, b) ==
    CASE IsNaN(a) \/ IsNaN(b) -> NaN
      [] a.k = "inf" /\ b.k = "inf" -> NaN
      [] a.k = "inf" -> Inf(IF b.n < 0 THEN -a.n ELSE a.n)
      [] b.k = "inf" -> Fin(0)
      [] b.n = 0 -> IF a.n = 0 THEN NaN ELSE Inf(Sgn(a.n))
      [] OTHER -> FRound(Sgn(a.n) * Sgn(b.n), Abs(a.n) * OneU, Abs(b.n))

\* fmaf: a * b + c rounded once
FFma(a, b, c) ==
    CASE IsNaN(a) \/ IsNaN(b) \/ IsNaN(c) -> NaN
      [] a.k = "inf" \/ b.k = "inf" ->
            IF a.n = 0 \/ b.n = 0 THEN NaN
            ELSE IF c.k = "inf" /\ c.n # Sgn(a.n) * Sgn(b.n) THEN NaN
            ELSE Inf(Sgn(a.n) * Sgn(b.n))
      [] c.k = "inf" -> c
      [] OTHER ->
            LET e == a.n * b.n + c.n * OneU
            IN  FRound(Sgn(e), Abs(e), OneU)

\* std::floor, std::ceil, std::round on a float: the integer below, the
\* integer above, the nearest integer with halves away from zero; each is
\* a float
FFloor(a) == IF IsFin(a) THEN Fin((a.n \div OneU) * OneU) ELSE a
FCeil(a) == IF IsFin(a) THEN Fin(-(((-a.n) \div OneU) * OneU)) ELSE a
FRoundHalfAway(a) ==
    IF IsFin(a)
    THEN Fin(Sgn(a.n) * ((2 * Abs(a.n) + OneU) \div (2 * OneU)) * OneU)
    ELSE a

\* sqrtf: the float nearest to the square root
FSqrt(a) ==
    CASE IsNaN(a) -> NaN
      [] a.k = "inf" -> IF a.n > 0 THEN a ELSE NaN
      [] a.n < 0 -> NaN
      [] OTHER ->
            LET N == 4 * a.n * OneU
                S == Isqrt(N)
            IN  IF S * S = N THEN FRound(1, S, 2) ELSE FRound(1, 2 * S + 1, 4)

\* the position of a non-NaN value on the number line
Ord(a) == IF a.k = "inf" THEN a.n * (FMaxU + 1) ELSE a.n

FEq(a, b) == ~IsNaN(a) /\ ~IsNaN(b) /\ a = b
FLt(a, b) == ~IsNaN(a) /\ ~IsNaN(b) /\ Ord(a) < Ord(b)
FGt(a, b) == FLt(b, a)

--------------------------------------------------------------------------
(* double: [k, n, e] is n * 2^e with n odd (or n = 0, e = 0).             *)

\* significand bits of double: wide enough that rounding a quotient of two
\* floats to double and then to float rounds once (53 >= 2*24+2)
DblMant == 2 * MantBits + 2

RECURSIVE DNorm(_, _)
DNorm(m, e) ==
    IF m = 0 THEN [k |-> "fin", n |-> 0, e |-> 0]
    ELSE IF m % 2 = 0 THEN DNorm(m \div 2, e + 1)
    ELSE [k |-> "fin", n |-> m, e |-> e]

DInf(s) == [k |-> "inf", n |-> s, e |-> 0]
DNaN == [k |-> "nan", n |-> 0, e |-> 0]
DUB == [k |-> "ub", n |-> 0, e |-> 0]

\* the double nearest to sgn * (num/den) * 2^e (num >= 0, den > 0)
RECURSIVE DRound(_, _, _, _)
DRound(sgn, num, den, e) ==
    IF num = 0 THEN DNorm(0, 0)
    ELSE IF num < den * Pow2(DblMant - 1) THEN DRound(sgn, 2 * num, den, e - 1)
    ELSE IF num >= den * Pow2(DblMant) THEN DRound(sgn, num, 2 * den, e + 1)
    ELSE LET m == num \div den
             rem == num - m * den
             mr == IF 2 * rem > den \/ (2 * rem = den /\ m % 2 = 1)
                   THEN m + 1 ELSE m
         IN  DNorm(sgn * mr, e)

\* float -> double, exact
FloatToDouble(a) ==
    CASE a.k = "fin" -> DNorm(a.n, -(MantBits + 1))
      [] a.k = "inf" -> DInf(a.n)
      [] OTHER -> DNaN

\* int -> double, exact (IntBits <= DblMant)
IntToDouble(a) == IF IsUB(a) THEN DUB ELSE DNorm(a.n, 0)

\* double -> float: the nearest float
DoubleToFloat(d) ==
    CASE d.k = "nan" -> NaN
      [] d.k = "inf" -> Inf(d.n)
      [] d.e >= ExpSpan -> Inf(Sgn(d.n))
      [] d.e >= 0 -> FRound(Sgn(d.n), Abs(d.n) * Pow2(d.e) * OneU, 1)
      [] OTHER -> FRound(Sgn(d.n), Abs(d.n) * OneU, Pow2(-d.e))

INT_MIN == -Pow2(IntBits - 1)
INT_MAX == Pow2(IntBits - 1) - 1

\* the int n when it is one, else undefined behaviour
IntOf(n) == IF n < INT_MIN \/ n > INT_MAX THEN UB ELSE Fin(n)

\* double -> int: truncation toward zero; undefined when it does not fit
DoubleToInt(d) ==
    CASE d.k # "fin" -> UB
      [] d.e >= 0 -> IF d.e > IntBits THEN UB ELSE IntOf(d.n * Pow2(d.e))
      [] OTHER -> IntOf(Sgn(d.n) * (Abs(d.n) \div Pow2(-d.e)))

DDiv(a, b) ==
    CASE a.k = "ub" \/ b.k = "ub" -> DUB
      [] a.k = "nan" \/ b.k = "nan" -> DNaN
      [] a.k = "inf" /\ b.k = "inf" -> DNaN
      [] a.k = "inf" -> DInf(IF b.n < 0 THEN -a.n ELSE a.n)
      [] b.k = "inf" -> DNorm(0, 0)
      [] b.n = 0 -> IF a.n = 0 THEN DNaN ELSE DInf(Sgn(a.n))
      [] OTHER -> DRound(Sgn(a.n) * Sgn(b.n), Abs(a.n), Abs(b.n), a.e - b.e)

\* sqrt of a double: the nearest double
DSqrt(a) ==
    CASE a.k = "ub" -> DUB
      [] a.k = "nan" -> DNaN
      [] a.k = "inf" -> IF a.n > 0 THEN a ELSE DNaN
      [] a.n < 0 -> DNaN
      [] OTHER ->
            LET odd == a.e % 2 = 1
                m == IF odd THEN 2 * a.n ELSE a.n
                h == (IF odd THEN a.e - 1 ELSE a.e) \div 2
                N == m * Pow2(2 * DblMant)
                S == Isqrt(N)
            IN  IF S * S = N THEN DRound(1, S, 1, h - DblMant)
                ELSE DRound(1, 2 * S + 1, 2, h - DblMant)

\* std::floor, std::ceil, std::round on a double
DFloor(d) ==
    IF d.k # "fin" \/ d.e >= 0 THEN d ELSE DNorm(d.n \div Pow2(-d.e), 0)
DCeil(d) ==
    IF d.k # "fin" \/ d.e >= 0 THEN d
    ELSE DNorm(-((-d.n) \div Pow2(-d.e)), 0)
DRoundHalfAway(d) ==
    IF d.k # "fin" \/ d.e >= 0 THEN d
    ELSE DNorm(Sgn(d.n) * ((2 * Abs(d.n) + Pow2(-d.e)) \div Pow2(1 - d.e)), 0)

DIsZero(d) == d.k = "fin" /\ d.n = 0

--------------------------------------------------------------------------
(* int arithmetic: the exact result when it is an int, else UB.           *)

IAdd(a, b) == IF IsUB(a) \/ IsUB(b) THEN UB ELSE IntOf(a.n + b.n)
ISub(a, b) == IF IsUB(a) \/ IsUB(b) THEN UB ELSE IntOf(a.n - b.n)
IMul(a, b) == IF IsUB(a) \/ IsUB(b) THEN UB ELSE IntOf(a.n * b.n)
INeg(a) == IF IsUB(a) THEN UB ELSE IntOf(-a.n)
\* truncating division; by zero, and INT_MIN / -1, are undefined
IDiv(a, b) ==
    IF IsUB(a) \/ IsUB(b) \/ b.n = 0 THEN UB
    ELSE IntOf(Sgn(a.n) * Sgn(b.n) * (Abs(a.n) \div Abs(b.n)))

\* int -> float: the nearest float
IntToFloat(a) == IF IsUB(a) THEN UB ELSE FRound(Sgn(a.n), Abs(a.n) * OneU, 1)

\* float -> int: truncation toward zero; undefined when it does not fit
FloatToInt(a) ==
    IF a.k # "fin" THEN UB ELSE IntOf(Sgn(a.n) * (Abs(a.n) \div OneU))

--------------------------------------------------------------------------
(* The arithmetic of the component type T, ty = "float" or "int".         *)

Types == {"float", "int"}

TAdd(T, a, b) == IF T = "int" THEN IAdd(a, b) ELSE FAdd(a, b)
TSub(T, a, b) == IF T = "int" THEN ISub(a, b) ELSE FSub(a, b)
TMul(T, a, b) == IF T = "int" THEN IMul(a, b) ELSE FMul(a, b)
TDiv(T, a, b) == IF T = "int" THEN IDiv(a, b) ELSE FDiv(a, b)
\* a * b + c and a * b - c as one expression: contracted when the build
\* contracts, and then the product is not rounded
FMulAdd(a, b, c) == IF contract THEN FFma(a, b, c) ELSE FAdd(FMul(a, b), c)
FMulSub(a, b, c) ==
    IF contract THEN FFma(a, b, FNeg(c)) ELSE FSub(FMul(a, b), c)
TMulAdd(T, a, b, c) ==
    IF T = "int" THEN IAdd(IMul(a, b), c) ELSE FMulAdd(a, b, c)
TMulSub(T, a, b, c) ==
    IF T = "int" THEN ISub(IMul(a, b), c) ELSE FMulSub(a, b, c)
TNeg(T, a) == IF T = "int" THEN INeg(a) ELSE FNeg(a)
\* ==, <, > of T: a comparison with NaN is false
TEq(T, a, b) == IF T = "int" THEN a = b /\ ~IsUB(a) ELSE FEq(a, b)
TLt(T, a, b) == IF T = "int" THEN a.n < b.n ELSE FLt(a, b)
TGt(T, a, b) == TLt(T, b, a)
TToDouble(T, a) == IF T = "int" THEN IntToDouble(a) ELSE FloatToDouble(a)
DoubleToT(T, d) == IF T = "int" THEN DoubleToInt(d) ELSE DoubleToFloat(d)
TToFloat(T, a) == IF T = "int" THEN IntToFloat(a) ELSE a
FloatToT(T, a) == IF T = "int" THEN FloatToInt(a) ELSE a
\* the int literal n as a T
TLit(T, n) == IF T = "int" THEN Fin(n) ELSE Fin(n * OneU)

--------------------------------------------------------------------------
(* Vector2<T>: the fields x and y, and the member functions as functions  *)
(* of the object's fields.  A mutating member returns the object's new    *)
(* fields.                                                                *)

Vec(x, y) == [x |-> x, y |-> y]

\* Vector2()
DefaultCtor(T) == Vec(TLit(T, 0), TLit(T, 0))

\* Vector2(Vector2 &&other): the new object and what is left in other
MoveCtor(T, other) ==
    [self |-> Vec(other.x, other.y),
     other |-> Vec(TLit(T, 0), TLit(T, 0))]

\* operator=(Vector2 &&other); same: this == &other
MoveAssign_NoReset(T, self, other, same) == [self |-> other, other |-> other]
\* without the test this != &other the reset of other empties *this too
MoveAssign_NoGuard(T, self, other, same) ==
    [self |-> IF same THEN Vec(TLit(T, 0), TLit(T, 0)) ELSE Vec(other.x, other.y),
     other |-> Vec(TLit(T, 0), TLit(T, 0))]
MoveAssign(T, self, other, same) ==
    IF ~same
    THEN [self |-> Vec(other.x, other.y),
          other |-> Vec(TLit(T, 0), TLit(T, 0))]
    ELSE [self |-> self, other |-> self]

\* Zero(): {.0F, .0F} converted to T
Zero(T) == Vec(FloatToT(T, Fin(0)), FloatToT(T, Fin(0)))

lengthSquared(T, v) == TMulAdd(T, v.x, v.x, TMul(T, v.y, v.y))

\* std::sqrt(float) is sqrtf, std::sqrt(int) is sqrt(double); returned as double
length(T, v) ==
    IF T = "int" THEN DSqrt(IntToDouble(lengthSquared(T, v)))
    ELSE FloatToDouble(FSqrt(lengthSquared(T, v)))

\* x /= len: T / double is a double division, converted back to T
DivByDouble(T, a, len) == DoubleToT(T, DDiv(TToDouble(T, a), len))

normalize_NoGuard(T, v) ==
    LET len == length(T, v)
    IN  Vec(DivByDouble(T, v.x, len), DivByDouble(T, v.y, len))
normalize(T, v) ==
    LET len == length(T, v)
    IN  IF ~DIsZero(len)
        THEN Vec(DivByDouble(T, v.x, len), DivByDouble(T, v.y, len))
        ELSE v

dot_Skew(T, v, other) ==
    TMulAdd(T, v.x, other.x, TMul(T, v.x, other.y))
dot(T, v, other) ==
    TMulAdd(T, v.x, other.x, TMul(T, v.y, other.y))

cross(T, v, other) ==
    TMulSub(T, v.x, other.y, TMul(T, v.y, other.x))

distanceToSquared_NoSquare(T, v, other) ==
    LET dx == TSub(T, v.x, other.x)
        dy == TSub(T, v.y, other.y)
    IN  TMulAdd(T, dx, dx, dy)
distanceToSquared(T, v, other) ==
    LET dx == TSub(T, v.x, other.x)
        dy == TSub(T, v.y, other.y)
    IN  TMulAdd(T, dx, dx, TMul(T, dy, dy))

distanceTo(T, v, other) ==
    IF T = "int" THEN DSqrt(IntToDouble(distanceToSquared(T, v, other)))
    ELSE FloatToDouble(FSqrt(distanceToSquared(T, v, other)))

clampToMax_Swapped(T, v, other) ==
    Vec(IF TLt(T, v.x, other.x) THEN other.x ELSE v.x,
        IF TLt(T, v.y, other.y) THEN other.y ELSE v.y)
clampToMax(T, v, other) ==
    Vec(IF TGt(T, v.x, other.x) THEN other.x ELSE v.x,
        IF TGt(T, v.y, other.y) THEN other.y ELSE v.y)

clampToMin(T, v, other) ==
    Vec(IF TLt(T, v.x, other.x) THEN other.x ELSE v.x,
        IF TLt(T, v.y, other.y) THEN other.y ELSE v.y)

\* x = std::floor(x) and its like: the float overload for T = float; for
\* T = int the integer overload, which computes in double, and the
\* conversion of its result back to int
TFloor(T, a) ==
    IF T = "int" THEN DoubleToInt(DFloor(IntToDouble(a))) ELSE FFloor(a)
TCeil(T, a) ==
    IF T = "int" THEN DoubleToInt(DCeil(IntToDouble(a))) ELSE FCeil(a)
TRound(T, a) ==
    IF T = "int" THEN DoubleToInt(DRoundHalfAway(IntToDouble(a)))
    ELSE FRoundHalfAway(a)

floor(T, v) == Vec(TFloor(T, v.x), TFloor(T, v.y))
ceil_FloorPlusOne(T, v) ==
    Vec(TAdd(T, TFloor(T, v.x), TLit(T, 1)), TAdd(T, TFloor(T, v.y), TLit(T, 1)))
ceil(T, v) == Vec(TCeil(T, v.x), TCeil(T, v.y))
round(T, v) == Vec(TRound(T, v.x), TRound(T, v.y))

\* clamp(value, min, max): a copy of value clamped into the box
clamp(T, value, min, max) == clampToMax(T, clampToMin(T, value, min), max)

\* one component of Lerp: float x = start.x + ((end.x - start.x) * amount),
\* then {x, y} converted to T
LerpComp(T, s, e, amount) ==
    LET d == TSub(T, e, s)
    IN  IF IsUB(d) THEN UB
        ELSE FloatToT(T, FMulAdd(TToFloat(T, d), amount, TToFloat(T, s)))

Lerp(T, start, end, amount) ==
    Vec(LerpComp(T, start.x, end.x, amount),
        LerpComp(T, start.y, end.y, amount))

OpAdd(T, lhs, rhs) == Vec(TAdd(T, lhs.x, rhs.x), TAdd(T, lhs.y, rhs.y))
OpSub(T, lhs, rhs) == Vec(TSub(T, lhs.x, rhs.x), TSub(T, lhs.y, rhs.y))
OpMul(T, lhs, scalar) == Vec(TMul(T, lhs.x, scalar), TMul(T, lhs.y, scalar))
OpDiv(T, lhs, scalar) == Vec(TDiv(T, lhs.x, scalar), TDiv(T, lhs.y, scalar))

\* operator+=, -=, *=, /=: the fields of *this after x op= ...; y op= ...
OpAddAssign(T, self, other) ==
    Vec(TAdd(T, self.x, other.x), TAdd(T, self.y, other.y))
OpSubAssign_Plus(T, self, other) ==
    Vec(TAdd(T, self.x, other.x), TAdd(T, self.y, other.y))
OpSubAssign(T, self, other) ==
    Vec(TSub(T, self.x, other.x), TSub(T, self.y, other.y))
OpMulAssign_DropY(T, self, scalar) == Vec(TMul(T, self.x, scalar), self.y)
OpMulAssign(T, self, scalar) ==
    Vec(TMul(T, self.x, scalar), TMul(T, self.y, scalar))
OpDivAssign(T, self, scalar) ==
    Vec(TDiv(T, self.x, scalar), TDiv(T, self.y, scalar))

OpEq_XOnly(T, lhs, rhs) == TEq(T, lhs.x, rhs.x)
OpEq(T, lhs, rhs) == TEq(T, lhs.x, rhs.x) /\ TEq(T, lhs.y, rhs.y)
OpNe(T, lhs, rhs) == ~OpEq(T, lhs, rhs)

--------------------------------------------------------------------------
(* The harness: the fixture objects a and b are constructed from the      *)
(* inputs, one operation is called (pc goes from "ready" to "done"), and  *)
(* the next test starts from fresh objects.                               *)

Objs == {"a", "b"}

\* component values the fixtures are constructed from; Fin(1) is the
\* smallest positive subnormal float, Fin(-(5 * OneU) \div 2) is -2.5
FloatIn ==
    {Fin(0), Fin(-3 * OneU), Fin(-(5 * OneU) \div 2), Fin(1), Fin(FMaxU),
     Inf(1), NaN}
IntIn == {Fin(0), Fin(1), Fin(-3), Fin(INT_MAX)}
CompIn(t) == IF t = "int" THEN IntIn ELSE FloatIn

\* scalar operands of operator* and operator/
ScalarIn(t) == {TLit(t, 0), TLit(t, 2)}
\* the amounts Lerp is called with: 0, 0.5, 1
AmountIn == {Fin(0), Fin(OneU \div 2), Fin(OneU)}

\* what an operation that ran into undefined behaviour may leave
UBVals == {Fin(INT_MIN), Fin(-1), Fin(0), Fin(INT_MAX)}
OutT(c) == IF IsUB(c) THEN UBVals ELSE {c}
OutD(d) == IF d.k = "ub" THEN {DNorm(c.n, 0) : c \in UBVals} ELSE {d}
OutV(v) == {Vec(x, y) : x \in OutT(v.x), y \in OutT(v.y)}
VecUB(v) == IsUB(v.x) \/ IsUB(v.y)

NoOp == [name |-> "none", args |-> <<>>]
NoRes == [kind |-> "none"]
Ref(i) == [kind |-> "ref", to |-> i]
Bool(b) == [kind |-> "bool", b |-> b]

Init ==
    /\ ty \in Types
    /\ contract \in BOOLEAN
    /\ obj = [i \in Objs |-> DefaultCtor(ty)]
    /\ pc = "ready"
    /\ op = NoOp
    /\ pre = obj
    /\ res = NoRes
    /\ ub = FALSE

\* the call of one operation: its name and arguments, the objects before
Call(name, args) ==
    /\ pc = "ready"
    /\ pc' = "done"
    /\ op' = [name |-> name, args |-> args]
    /\ pre' = obj
    /\ UNCHANGED <<ty, contract>>

\* Vector2(T x, T y) / set(x, y) on fixture i
Construct(i, x, y) ==
    /\ pc = "ready"
    /\ obj' = [obj EXCEPT ![i] = Vec(x, y)]
    /\ pre' = obj'
    /\ UNCHANGED <<ty, contract, pc, op, res, ub>>

\* Vector2 v{std::move(obj[i])}: res is the new object
MoveConstruct(i) ==
    LET r == MoveCtor(ty, obj[i])
    IN  /\ Call("MoveCtor", <<i>>)
        /\ obj' = [obj EXCEPT ![i] = r.other]
        /\ res' = r.self
        /\ ub' = FALSE

\* obj[i] = std::move(obj[j])
MoveAssignment(i, j) ==
    LET r == MoveAssign(ty, obj[i], obj[j], i = j)
    IN  /\ Call("MoveAssign", <<i, j>>)
        /\ obj' = [[obj EXCEPT ![j] = r.other] EXCEPT ![i] = r.self]
        /\ res' = Ref(i)
        /\ ub' = FALSE

\* a query returning a T
QueryT(name, args, value) ==
    /\ Call(name, args)
    /\ res' \in OutT(value)
    /\ ub' = IsUB(value)
    /\ obj' = obj

\* a query returning a double
QueryD(name, args, value) ==
    /\ Call(name, args)
    /\ res' \in OutD(value)
    /\ ub' = (value.k = "ub")
    /\ obj' = obj

\* an operation returning a Vector2 by value; its operands are const
QueryV_WritesLhs(name, args, value) ==
    /\ Call(name, args)
    /\ res' \in OutV(value)
    /\ ub' = VecUB(value)
    /\ obj' = IF args[1] \in Objs THEN [obj EXCEPT ![args[1]] = res'] ELSE obj
QueryV(name, args, value) ==
    /\ Call(name, args)
    /\ res' \in OutV(value)
    /\ ub' = VecUB(value)
    /\ obj' = obj

\* a member that changes obj[i] and returns *this
Mutate(name, args, i, value) ==
    /\ Call(name, args)
    /\ \E v \in OutV(value) : obj' = [obj EXCEPT ![i] = v]
    /\ res' = Ref(i)
    /\ ub' = VecUB(value)

\* the second statement of a test (src/src/test.cpp:215-236): after a first
\* call that ran into nothing undefined, a member that changes obj[i] and
\* returns *this; pre stays what the objects were before the first call
Then(name, i, value) ==
    /\ pc = "done"
    /\ ~ub
    /\ pc' = "done2"
    /\ op' = [name |-> name, args |-> op.args]
    /\ \E v \in OutV(value) : obj' = [obj EXCEPT ![i] = v]
    /\ res' = Ref(i)
    /\ ub' = VecUB(value)
    /\ UNCHANGED <<ty, contract, pre>>

LengthSquared(i) == QueryT("lengthSquared", <<i>>, lengthSquared(ty, obj[i]))
Length(i) == QueryD("length", <<i>>, length(ty, obj[i]))
Normalize(i) == Mutate("normalize", <<i>>, i, normalize(ty, obj[i]))
Dot(i, j) == QueryT("dot", <<i, j>>, dot(ty, obj[i], obj[j]))
Cross(i, j) == QueryT("cross", <<i, j>>, cross(ty, obj[i], obj[j]))
DistanceToSquared(i, j) ==
    QueryT("distanceToSquared", <<i, j>>, distanceToSquared(ty, obj[i], obj[j]))
DistanceTo(i, j) == QueryD("distanceTo", <<i, j>>, distanceTo(ty, obj[i], obj[j]))
ClampToMax(i, j) == Mutate("clampToMax", <<i, j>>, i, clampToMax(ty, obj[i], obj[j]))
ClampToMin(i, j) == Mutate("clampToMin", <<i, j>>, i, clampToMin(ty, obj[i], obj[j]))

Floor(i) == Mutate("floor", <<i>>, i, floor(ty, obj[i]))
Ceil(i) == Mutate("ceil", <<i>>, i, ceil(ty, obj[i]))
Round(i) == Mutate("round", <<i>>, i, round(ty, obj[i]))

\* Vector2f::clamp(obj[i], obj[j], max)
Clamp(i, j, max) ==
    /\ ty = "float"
    /\ QueryV("clamp", <<i, j, max>>, clamp(ty, obj[i], obj[j], max))

\* Lerp(obj[i], obj[j], amount)
LerpCall(i, j, amount) ==
    QueryV("Lerp", <<i, j, amount>>, Lerp(ty, obj[i], obj[j], amount))

\* an operand of operator+ and operator-: a fixture, or the temporary Zero()
\* (Zero() is ill-formed for T = int: a float literal narrowed to int)
Operands == IF ty = "float" THEN Objs \cup {"Zero"} ELSE Objs
Val(s) == IF s = "Zero" THEN Zero(ty) ELSE obj[s]
PreVal(s) == IF s = "Zero" THEN Zero(ty) ELSE pre[s]

Add(l, r) == QueryV("+", <<l, r>>, OpAdd(ty, Val(l), Val(r)))
Sub(l, r) == QueryV("-", <<l, r>>, OpSub(ty, Val(l), Val(r)))
Mul(i, s) == QueryV("*", <<i, s>>, OpMul(ty, obj[i], s))
Div(i, s) == QueryV("/", <<i, s>>, OpDiv(ty, obj[i], s))

\* obj[i] += obj[j], obj[i] -= obj[j], obj[i] *= s, obj[i] /= s
AddAssign(i, j) ==
    Mutate("+=", <<i, j>>, i, OpAddAssign(ty, obj[i], obj[j]))
\* -= and /= are also called as the second statement, on the operands of
\* a += or *= just made
SubAssign(i, j) ==
    \/ Mutate("-=", <<i, j>>, i, OpSubAssign(ty, obj[i], obj[j]))
    \/ /\ op.name = "+=" /\ op.args = <<i, j>>
       /\ Then("+=;-=", i, OpSubAssign(ty, obj[i], obj[j]))
MulAssign(i, s) == Mutate("*=", <<i, s>>, i, OpMulAssign(ty, obj[i], s))
DivAssign(i, s) ==
    \/ Mutate("/=", <<i, s>>, i, OpDivAssign(ty, obj[i], s))
    \/ /\ op.name = "*=" /\ op.args = <<i, s>>
       /\ Then("*=;/=", i, OpDivAssign(ty, obj[i], s))

Eq(i, j) ==
    /\ Call("==", <<i, j>>)
    /\ res' = Bool(OpEq(ty, obj[i], obj[j]))
    /\ UNCHANGED obj /\ ub' = FALSE

Ne(i, j) ==
    /\ Call("!=", <<i, j>>)
    /\ res' = Bool(OpNe(ty, obj[i], obj[j]))
    /\ UNCHANGED obj /\ ub' = FALSE

\* the next test: fresh fixtures
Reset ==
    /\ pc \in {"done", "done2"}
    /\ pc' = "ready"
    /\ obj' = [i \in Objs |-> DefaultCtor(ty)]
    /\ pre' = obj'
    /\ op' = NoOp
    /\ res' = NoRes
    /\ ub' = FALSE
    /\ UNCHANGED <<ty, contract>>

Next ==
    \/ \E i \in Objs : \E x, y \in CompIn(ty) : Construct(i, x, y)
    \/ \E i \in Objs : MoveConstruct(i)
    \/ \E i, j \in Objs : MoveAssignment(i, j)
    \/ \E i \in Objs : LengthSquared(i)
    \/ \E i \in Objs : Length(i)
    \/ \E i \in Objs : Normalize(i)
    \/ \E i, j \in Objs : Dot(i, j)
    \/ \E i, j \in Objs : Cross(i, j)
    \/ \E i, j \in Objs : DistanceToSquared(i, j)
    \/ \E i, j \in Objs : DistanceTo(i, j)
    \/ \E i, j \in Objs : ClampToMax(i, j)
    \/ \E i, j \in Objs : ClampToMin(i, j)
    \/ \E i, j \in Objs : \E mx, my \in {Fin(OneU), Fin(FMaxU)} :
          i # j /\ Clamp(i, j, Vec(mx, my))
    \/ \E i, j \in Objs : \E t \in AmountIn : LerpCall(i, j, t)
    \/ \E l, r \in Operands : Add(l, r)
    \/ \E l, r \in Operands : Sub(l, r)
    \/ \E i \in Objs : \E s \in ScalarIn(ty) : Mul(i, s)
    \/ \E i \in Objs : \E s \in ScalarIn(ty) : Div(i, s)
    \/ \E i \in Objs : Floor(i)
    \/ \E i \in Objs : Ceil(i)
    \/ \E i \in Objs : Round(i)
    \/ \E i, j \in Objs : AddAssign(i, j)
    \/ \E i, j \in Objs : SubAssign(i, j)
    \/ \E i \in Objs : \E s \in ScalarIn(ty) : MulAssign(i, s)
    \/ \E i \in Objs : \E s \in ScalarIn(ty) : DivAssign(i, s)
    \/ \E i, j \in Objs : Eq(i, j)
    \/ \E i, j \in Objs : Ne(i, j)
    \/ Reset

Spec == Init /\ [][Next]_vars

--------------------------------------------------------------------------
(* Properties.                                                            *)

ZeroVec == Vec(TLit(ty, 0), TLit(ty, 0))
TLe(t, a, b) == TLt(t, a, b) \/ TEq(t, a, b)
FiniteVec(v) == IsFin(v.x) /\ IsFin(v.y)

\* C1: move-construction and move-assignment from a source into a distinct
\* destination leave the destination with the source's fields as they were
\* before the move, and the source with (0,0).
C1_MoveTransfersAndZeroesSource ==
    /\ op.name = "MoveCtor" =>
          /\ res = pre[op.args[1]]
          /\ obj[op.args[1]] = ZeroVec
    /\ (op.name = "MoveAssign" /\ op.args[1] # op.args[2]) =>
          /\ obj[op.args[1]] = pre[op.args[2]]
          /\ obj[op.args[2]] = ZeroVec

\* a move-assignment from a source that was not (0,0) has happened
C1_Witness ==
    /\ op.name = "MoveAssign"
    /\ op.args[1] # op.args[2]
    /\ pre[op.args[2]] = Vec(Fin(FMaxU), Fin(-3 * OneU))
    /\ obj[op.args[1]] = Vec(Fin(FMaxU), Fin(-3 * OneU))
    /\ obj[op.args[2]] = ZeroVec

\* one axis of clamp's contract on a box with min <= max on that axis
ClampAxisOk(v, lo, hi, r) ==
    /\ (TLe(ty, lo, v) /\ TLe(ty, v, hi)) => r = v
    /\ (TLt(ty, v, lo) /\ TLe(ty, lo, hi)) => r = lo
    /\ (TGt(ty, v, hi) /\ TLe(ty, lo, hi)) => r = hi

C3_NormalizeZeroIsNoOp ==
    (op.name = "normalize" /\ DIsZero(length(ty, pre[op.args[1]]))) =>
        /\ obj = pre
        /\ res = Ref(op.args[1])
        /\ ~ub

\* normalize() has been called on (0,0)
C3_Witness ==
    /\ op.name = "normalize"
    /\ pre[op.args[1]] = ZeroVec
    /\ obj[op.args[1]] = ZeroVec
    /\ ty = "float"

\* the place of a finite float n >= 0 (fu) among the floats, counted from 0
RECURSIVE FIdx(_)
FIdx(n) ==
    IF n < Pow2(MantBits) THEN n ELSE Pow2(MantBits - 1) + FIdx(n \div 2)

SIdx(a) ==
    IF a.k = "inf" THEN a.n * (FIdx(FMaxU) + 1) ELSE Sgn(a.n) * FIdx(Abs(a.n))

\* EXPECT_FLOAT_EQ (src/src/test.cpp:129): neither is NaN and the two are at
\* most 4 units in the last place apart
AlmostEq(a, b) == ~IsNaN(a) /\ ~IsNaN(b) /\ Abs(SIdx(a) - SIdx(b)) <= 4

\* x / y before and after, compared as src/src/test.cpp:130 compares it
SameRatio(before, after) ==
    IF ty = "float"
    THEN AlmostEq(FDiv(before.x, before.y), FDiv(after.x, after.y))
    ELSE IF before.y.n = 0 \/ after.y.n = 0
         THEN before.y = after.y /\ Sgn(before.x.n) = Sgn(after.x.n)
         ELSE IDiv(before.x, before.y) = IDiv(after.x, after.y)

\* C4: normalize() on a nonzero vector (of finite components) leaves it with
\* length() approximately 1.0 and with the ratio x/y it had.
C4_NormalizeUnitLength ==
    (/\ op.name = "normalize"
     /\ FiniteVec(pre[op.args[1]])
     /\ pre[op.args[1]] # ZeroVec) =>
        /\ ~ub
        /\ AlmostEq(DoubleToFloat(length(ty, obj[op.args[1]])), Fin(OneU))
        /\ SameRatio(pre[op.args[1]], obj[op.args[1]])

\* (a + b) / 2 with the type's operator+ and operator/
Midpoint(a, b) == OpDiv(ty, OpAdd(ty, a, b), TLit(ty, 2))

\* C5: for vectors a, b (of finite components): Lerp(a,b,0) == a,
\* Lerp(a,b,1) == b and Lerp(a,b,0.5) == (a+b)/2 under operator==.
C5_LerpEndpointsAndMidpoint ==
    (/\ op.name = "Lerp"
     /\ FiniteVec(pre[op.args[1]])
     /\ FiniteVec(pre[op.args[2]])
     /\ ~ub) =>
        LET a == pre[op.args[1]]
            b == pre[op.args[2]]
            t == op.args[3]
        IN  /\ t = Fin(0) => OpEq(ty, res, a)
            /\ t = Fin(OneU) => OpEq(ty, res, b)
            /\ t = Fin(OneU \div 2) => OpEq(ty, res, Midpoint(a, b))

\* Zero() + v == v and v - v == Zero(), for the operands the call was made on
ZeroLaws ==
    /\ (op.name = "+" /\ op.args[1] = "Zero") =>
          OpEq(ty, res, PreVal(op.args[2]))
    /\ (op.name = "-" /\ op.args[1] = op.args[2]) =>
          OpEq(ty, res, Zero(ty))

\* C6: for every vector v, Zero() + v == v and v - v == Zero().
C6_ZeroLawsEveryVector ==
    op.name \in {"+", "-"} => ZeroLaws

\* -(b.cross(a)) for the operands of the call
NegCrossSwapped == TNeg(ty, cross(ty, pre[op.args[2]], pre[op.args[1]]))

\* C7: for all a and b, a.cross(b) == -(b.cross(a)).
C7_CrossAntiCommutesAlways ==
    op.name = "cross" => TEq(ty, res, NegCrossSwapped)

\* b.dot(a) for the operands of the call
DotSwapped == dot(ty, pre[op.args[2]], pre[op.args[1]])

DiffLengthSquared ==
    lengthSquared(ty, OpSub(ty, pre[op.args[1]], pre[op.args[2]]))

\* C9 as claimed: for all a and b,
\* a.distanceToSquared(b) == (a - b).lengthSquared().
C9_DistanceSquaredAgreesAlways ==
    op.name = "distanceToSquared" => TEq(ty, res, DiffLengthSquared)

\* C9: a.distanceToSquared(b) == (a - b).lengthSquared() whenever the
\* squared distance is not NaN and, for integral T, does not overflow.
C9_DistanceSquaredAgrees ==
    (op.name = "distanceToSquared" /\ ~ub /\ ~IsNaN(res)) =>
        TEq(ty, res, DiffLengthSquared)

\* a.distanceToSquared(b) has been computed with a rounded, nonzero result
C9_Witness ==
    /\ op.name = "distanceToSquared"
    /\ op.args = <<"a", "b">>
    /\ pre["a"] = Vec(Fin(-3 * OneU), Fin(0))
    /\ pre["b"] = Vec(Fin(0), Fin(-3 * OneU))
    /\ IsFin(res) /\ res.n > 9 * OneU
    /\ res = DiffLengthSquared

\* every vector the fixtures can be built as
AllVecs == {Vec(x, y) : x, y \in CompIn(ty)}
HasNaN(v) == IsNaN(v.x) \/ IsNaN(v.y)

\* symmetry and transitivity of ==, its agreement with the fields, and
\* != as its negation, for the operands of the call
EqLaws ==
    /\ op.name = "==" =>
          LET a == pre[op.args[1]]
              b == pre[op.args[2]]
          IN  /\ res.b = OpEq(ty, b, a)
              /\ res.b => \A c \in AllVecs : OpEq(ty, b, c) => OpEq(ty, a, c)
              /\ res.b = (a = b /\ ~HasNaN(a))
    /\ op.name = "!=" =>
          res.b = ~OpEq(ty, pre[op.args[1]], pre[op.args[2]])

CompoundResult ==
    CASE op.name = "+=" -> OpAdd(ty, pre[op.args[1]], pre[op.args[2]])
      [] op.name = "-=" -> OpSub(ty, pre[op.args[1]], pre[op.args[2]])
      [] op.name = "*=" -> OpMul(ty, pre[op.args[1]], op.args[2])
      [] op.name = "/=" -> OpDiv(ty, pre[op.args[1]], op.args[2])

\* C11: each of +=, -= (with a vector) and *=, /= (with a scalar), where it
\* runs into no undefined behaviour, leaves the left operand with the
\* component-wise result, returns a reference to the left operand, and
\* leaves every other object, a distinct right operand among them, as it
\* was.
C11_CompoundUpdatesInPlace ==
    (op.name \in {"+=", "-=", "*=", "/="} /\ ~ub) =>
        /\ obj[op.args[1]] = CompoundResult
        /\ res = Ref(op.args[1])
        /\ \A k \in Objs \ {op.args[1]} : obj[k] = pre[k]

\* a -= b has changed a and left the distinct object b alone
C11_Witness ==
    /\ op.name = "-="
    /\ op.args = <<"a", "b">>
    /\ pre["a"] = Vec(Fin(-3 * OneU), Fin(0))
    /\ pre["b"] = Vec(Fin(1), Fin(-3 * OneU))
    /\ obj["a"] = Vec(Fin(-3 * OneU), Fin(3 * OneU))
    /\ obj["b"] = pre["b"]
    /\ res = Ref("a")

\* the operations that take their operands as const and return a value
PureOps ==
    {"+", "-", "*", "/", "lengthSquared", "length", "dot", "cross",
     "distanceToSquared", "distanceTo"}

\* C12: binary +, -, * and / by a scalar, and the queries lengthSquared,
\* length, dot, cross, distanceToSquared and distanceTo, where they run
\* into no undefined behaviour, leave x and y of every object as they were;
\* only the returned value carries the result.
C12_PureOpsLeaveOperands ==
    (op.name \in PureOps /\ ~ub) => obj = pre

\* a * 2 has returned a vector that differs from a, and a is as it was
C12_Witness ==
    /\ op.name = "*"
    /\ op.args = <<"a", TLit(ty, 2)>>
    /\ pre["a"] = Vec(TLit(ty, -3), TLit(ty, 0))
    /\ res = Vec(TLit(ty, -6), TLit(ty, 0))
    /\ obj["a"] = pre["a"]

\* the rounding operation of the call, applied to v
Rounding(v) ==
    CASE op.name = "floor" -> floor(ty, v)
      [] op.name = "ceil" -> ceil(ty, v)
      [] op.name = "round" -> round(ty, v)

\* C13: floor(), ceil() and round() each return a reference to the same
\* instance and are idempotent (applied to the vector they left, they leave
\* it as it is); for integral T each leaves the vector as it was.
C13_RoundingIdempotent ==
    op.name \in {"floor", "ceil", "round"} =>
        /\ ~ub
        /\ res = Ref(op.args[1])
        /\ obj[op.args[1]] = Rounding(pre[op.args[1]])
        /\ Rounding(obj[op.args[1]]) = obj[op.args[1]]
        /\ ty = "int" => obj = pre

\* ceil() has moved both components of a float vector up to integers
C13_Witness ==
    /\ op.name = "ceil"
    /\ ty = "float"
    /\ pre[op.args[1]] = Vec(Fin(-(5 * OneU) \div 2), Fin(1))
    /\ obj[op.args[1]] = Vec(Fin(-2 * OneU), Fin(OneU))
    /\ res = Ref(op.args[1])

\* a + b, or a * b, is computed exactly: for float the operands are finite
\* and the result is the real sum or product, not rounded, not overflowed;
\* for int it is, wherever the call ran into nothing undefined
ExactSum(a, b) ==
    ty = "float" => IsFin(a) /\ IsFin(b) /\ FAdd(a, b) = Fin(a.n + b.n)
ExactProduct(a, b) ==
    ty = "float" =>
        /\ IsFin(a) /\ IsFin(b)
        /\ (a.n * b.n) % OneU = 0
        /\ FMul(a, b) = Fin((a.n * b.n) \div OneU)

\* C14 as claimed: for all vectors v, w of finite components (w an object
\* other than v) and every nonzero scalar s, after v += w; v -= w and after
\* v *= s; v /= s the vector v has the fields it had before.
C14_CompoundUndoAlways ==
    /\ (/\ op.name = "+=;-="
        /\ ~ub
        /\ op.args[1] # op.args[2]
        /\ FiniteVec(pre[op.args[1]])
        /\ FiniteVec(pre[op.args[2]])) =>
          obj[op.args[1]] = pre[op.args[1]]
    /\ (/\ op.name = "*=;/="
        /\ ~ub
        /\ op.args[2] # TLit(ty, 0)
        /\ FiniteVec(pre[op.args[1]])) =>
          obj[op.args[1]] = pre[op.args[1]]

\* C14: after v += w; v -= w, with w an object other than v, each component
\* of v whose sum with w's was computed exactly has the value it had
\* before; after v *= s; v /= s with s nonzero, each component of v whose
\* product with s was computed exactly has the value it had before.  (For
\* integral T every sum and product that does not overflow is exact.)
C14_CompoundUndoWhenExact ==
    /\ (op.name = "+=;-=" /\ ~ub /\ op.args[1] # op.args[2]) =>
          LET v == pre[op.args[1]]
              w == pre[op.args[2]]
              r == obj[op.args[1]]
          IN  /\ ExactSum(v.x, w.x) => r.x = v.x
              /\ ExactSum(v.y, w.y) => r.y = v.y
    /\ (op.name = "*=;/=" /\ ~ub /\ op.args[2] # TLit(ty, 0)) =>
          LET v == pre[op.args[1]]
              s == op.args[2]
              r == obj[op.args[1]]
          IN  /\ ExactProduct(v.x, s) => r.x = v.x
              /\ ExactProduct(v.y, s) => r.y = v.y

\* a += b; a -= b has been run on float vectors whose sums are exact and
\* not trivial, and a is back where it was
C14_Witness ==
    /\ op.name = "+=;-="
    /\ op.args = <<"a", "b">>
    /\ ty = "float"
    /\ pre["a"] = Vec(Fin(-3 * OneU), Fin(1))
    /\ pre["b"] = Vec(Fin(-3 * OneU), Fin(1))
    /\ ExactSum(pre["a"].x, pre["b"].x)
    /\ ExactSum(pre["a"].y, pre["b"].y)
    /\ obj["a"] = pre["a"]
    /\ obj["b"] = pre["b"]

\* C15: move-assigning a vector to itself (v = std::move(v)) leaves x and y
\* of v, and of every other object, as they were, and returns a reference
\* to v.
C15_SelfMoveAssignKeeps ==
    (op.name = "MoveAssign" /\ op.args[1] = op.args[2]) =>
        /\ obj = pre
        /\ res = Ref(op.args[1])
        /\ ~ub

\* a vector that is not (0,0) has been move-assigned to itself and kept
\* its fields
C15_Witness ==
    /\ op.name = "MoveAssign"
    /\ op.args = <<"a", "a">>
    /\ pre["a"] = Vec(TLit(ty, -3), TLit(ty, 0))
    /\ obj["a"] = Vec(TLit(ty, -3), TLit(ty, 0))

==========================================================================
